---------------------------- MODULE Spec2Model ----------------------------
(***************************************************************************)
(* Video temporal grounding: the reward scorer                             *)
(* (src/verl/utils/reward_score/video_grounding.py) and the ground-truth   *)
(* resolver (src/video_grounding/dataset_prep.py).                         *)
(*                                                                         *)
(* Strings are sequences of tokens.  A token is one character, except the  *)
(* four tag markers, which are single tokens of 7, 8, 11 and 12            *)
(* characters.  No other token of the alphabet is a letter of a marker,    *)
(* so substring search on characters and on tokens agree.                  *)
(*                                                                         *)
(* Python floats are modelled as exact rationals <<num, den>> in lowest    *)
(* terms (den > 0); the resolver's times are integers in ticks of          *)
(* 1/2^max_layer second, which makes every segment boundary exact.         *)
(***************************************************************************)
EXTENDS Integers, Sequences, FiniteSets, TLC

\* ------------------------------------------------------------- bounds
\* Longest thinking content of the check_format inputs, in characters.
MaxThinkLen == 250
\* Largest sampling rate of the evaluate_sampling_rate inputs.
MaxRate == 32
\* Most blanks put on each side of a formatted field.
MaxPad == 1
\* Largest layer of the evaluate_grounding inputs.
MaxLayerIn == 4
\* Longest video, and latest minute of a time reference, of the resolver.
MaxDurationMin == 4

\* ------------------------------------------------------------ strings
TagThinkOpen == "<think>"
TagThinkClose == "</think>"
TagGroundOpen == "<grounding>"
TagGroundClose == "</grounding>"

Tags == {TagThinkOpen, TagThinkClose, TagGroundOpen, TagGroundClose}

Digits == <<"0", "1", "2", "3", "4", "5", "6", "7", "8", "9">>

IsDigit(c) == \E i \in 1..10 : Digits[i] = c

DigitVal(c) == (CHOOSE i \in 1..10 : Digits[i] = c) - 1

\* Characters of one token: len() counts characters.
TokLen(c) ==
  IF c = TagThinkOpen THEN 7
  ELSE IF c = TagThinkClose THEN 8
  ELSE IF c = TagGroundOpen THEN 11
  ELSE IF c = TagGroundClose THEN 12
  ELSE 1

CountTok(s, tok) == Cardinality({i \in 1..Len(s) : s[i] = tok})

\* len(s): one character a token, and the rest of each marker's characters.
CharLen(s) ==
  Len(s)
  + (TokLen(TagThinkOpen) - 1) * CountTok(s, TagThinkOpen)
  + (TokLen(TagThinkClose) - 1) * CountTok(s, TagThinkClose)
  + (TokLen(TagGroundOpen) - 1) * CountTok(s, TagGroundOpen)
  + (TokLen(TagGroundClose) - 1) * CountTok(s, TagGroundClose)

\* `tok in s` for a marker.
Contains(s, tok) == \E i \in 1..Len(s) : s[i] = tok

\* Index of the first tok at or after position from; 0 when there is none.
IndexFrom(s, tok, from) ==
  IF \E i \in from..Len(s) : s[i] = tok
  THEN CHOOSE i \in from..Len(s) :
         s[i] = tok /\ \A j \in from..(i - 1) : s[j] # tok
  ELSE 0

\* Every marker and the lone "<" hold the character '<'.
HasLt(c) == c \in Tags \/ c = "<"

\* str.strip(): blanks off both ends.
RECURSIVE LStrip(_)
LStrip(s) == IF s # <<>> /\ Head(s) = " " THEN LStrip(Tail(s)) ELSE s

RECURSIVE RStrip(_)
RStrip(s) ==
  IF s # <<>> /\ s[Len(s)] = " " THEN RStrip(SubSeq(s, 1, Len(s) - 1)) ELSE s

Strip(s) == RStrip(LStrip(s))

\* str.split(sep): one part more than there are separators.
RECURSIVE Split(_, _)
Split(s, sep) ==
  LET i == IndexFrom(s, sep, 1)
  IN IF i = 0 THEN <<s>>
     ELSE <<SubSeq(s, 1, i - 1)>> \o Split(SubSeq(s, i + 1, Len(s)), sep)

\* [p.strip() for p in content.split(',')]
StripAll(parts) == [i \in 1..Len(parts) |-> Strip(parts[i])]

RECURSIVE DigitsVal(_, _)
DigitsVal(s, acc) ==
  IF s = <<>> THEN acc ELSE DigitsVal(Tail(s), 10 * acc + DigitVal(Head(s)))

\* int(str): blanks stripped, an optional sign, then one digit or more.
\* ok = FALSE stands for ValueError.
ParseInt(str) ==
  LET s == Strip(str)
      signed == s # <<>> /\ Head(s) \in {"-", "+"}
      body == IF signed THEN Tail(s) ELSE s
      good == body # <<>> /\ \A i \in 1..Len(body) : IsDigit(body[i])
  IN IF ~good THEN [ok |-> FALSE, v |-> 0]
     ELSE [ok |-> TRUE,
           v |-> IF signed /\ Head(s) = "-" THEN 0 - DigitsVal(body, 0)
                 ELSE DigitsVal(body, 0)]

RECURSIVE NatToStr(_)
NatToStr(n) ==
  IF n < 10 THEN <<Digits[n + 1]>>
  ELSE NatToStr(n \div 10) \o <<Digits[(n % 10) + 1]>>

\* str(int), as an f-string renders it.
IntToStr(n) == IF n < 0 THEN <<"-">> \o NatToStr(0 - n) ELSE NatToStr(n)

\* ---------------------------------------------------------- rationals
Abs(x) == IF x < 0 THEN 0 - x ELSE x

RECURSIVE Gcd(_, _)
Gcd(a, b) == IF b = 0 THEN a ELSE Gcd(b, a % b)

Rat(n, d) ==
  LET g == Gcd(Abs(n), Abs(d))
      sg == IF d < 0 THEN 0 - 1 ELSE 1
  IN <<(sg * n) \div g, (sg * d) \div g>>

RInt(n) == <<n, 1>>
RAdd(a, b) == Rat(a[1] * b[2] + b[1] * a[2], a[2] * b[2])
RSub(a, b) == Rat(a[1] * b[2] - b[1] * a[2], a[2] * b[2])
RMul(a, b) == Rat(a[1] * b[1], a[2] * b[2])
RDiv(a, b) == Rat(a[1] * b[2], a[2] * b[1])
RLe(a, b) == a[1] * b[2] <= b[1] * a[2]
RLt(a, b) == a[1] * b[2] < b[1] * a[2]
RMin(a, b) == IF RLe(a, b) THEN a ELSE b
RMax(a, b) == IF RLe(b, a) THEN a ELSE b


\* ------------------------------------------------- the reward scorer
Zero == RInt(0)
One == RInt(1)

\* re.search(r'<think>(.*?)</think>', s, re.DOTALL): the first opening
\* marker and the first closing marker after it; group is what lies between.
SearchThink(s) ==
  LET i == IndexFrom(s, TagThinkOpen, 1)
      j == IF i = 0 THEN 0 ELSE IndexFrom(s, TagThinkClose, i + 1)
  IN IF i = 0 \/ j = 0 THEN [found |-> FALSE, group |-> <<>>]
     ELSE [found |-> TRUE, group |-> SubSeq(s, i + 1, j - 1)]

\* GroundingMatchAt for r'<grounding>([^<]*)</grounding>': empty content too.
GroundingMatchAt_Star(s, i, j) ==
  /\ s[i] = TagGroundOpen
  /\ j >= i + 1
  /\ s[j] = TagGroundClose
  /\ \A k \in (i + 1)..(j - 1) : ~HasLt(s[k])

\* Whether r'<grounding>([^<]+)</grounding>' matches from position i up to
\* the closing marker at position j.
GroundingMatchAt(s, i, j) ==
  /\ s[i] = TagGroundOpen
  /\ j >= i + 2
  /\ s[j] = TagGroundClose
  /\ \A k \in (i + 1)..(j - 1) : ~HasLt(s[k])

\* re.search(r'<grounding>([^<]+)</grounding>', s): the leftmost match.
SearchGrounding(s) ==
  LET starts == {i \in 1..Len(s) :
                   s[i] = TagGroundOpen
                   /\ \E j \in (i + 1)..Len(s) : GroundingMatchAt(s, i, j)}
  IN IF starts = {} THEN [found |-> FALSE, group |-> <<>>]
     ELSE LET i == CHOOSE i \in starts : \A k \in starts : i <= k
              j == CHOOSE j \in (i + 1)..Len(s) : GroundingMatchAt(s, i, j)
          IN [found |-> TRUE, group |-> SubSeq(s, i + 1, j - 1)]

\* ThinkingQuality with the content left untrimmed.
ThinkingQuality_Untrimmed(response_str) ==
  LET thinking_match == SearchThink(response_str)
  IN IF thinking_match.found
     THEN RMin(One, Rat(CharLen(thinking_match.group), 200))
     ELSE Zero

ThinkingQuality(response_str) ==
  LET thinking_match == SearchThink(response_str)
  IN IF thinking_match.found
     THEN RMin(One, Rat(CharLen(Strip(thinking_match.group)), 200))
     ELSE Zero

check_format(response_str) ==
  LET has_thinking == /\ Contains(response_str, TagThinkOpen)
                      /\ Contains(response_str, TagThinkClose)
      has_grounding == /\ Contains(response_str, TagGroundOpen)
                       /\ Contains(response_str, TagGroundClose)
  IN IF has_thinking /\ has_grounding
     THEN RAdd(Rat(6, 10), RMul(Rat(4, 10), ThinkingQuality(response_str)))
     ELSE IF has_thinking THEN Rat(3, 10)
     ELSE IF has_grounding THEN Rat(5, 10)
     ELSE Zero

\* 2**gt_layer: an int for a layer >= 0, a float below.
PowTwo(l) == IF l >= 0 THEN RInt(2 ^ l) ELSE Rat(1, 2 ^ (0 - l))

\* segment_distance / (num_segments/2) in IEEE doubles: num_segments/2 is
\* too large for a float from 2**1025 on (OverflowError), and is 0.0 from
\* 2**-1074 down (ZeroDivisionError).  Neither is a ValueError or an
\* IndexError.
TrueDivRaises(gt_layer) == gt_layer >= 1025 \/ gt_layer <= 0 - 1074

\* SegmentScore with the direct distance only, no wrap-around.
SegmentScore_NoWrap(pred_segment, gt_segment, gt_layer) ==
  LET num_segments == PowTwo(gt_layer)
      segment_distance == RInt(Abs(pred_segment - gt_segment))
  IN RMax(Zero, RSub(One, RDiv(segment_distance, RDiv(num_segments, RInt(2)))))

SegmentScore(pred_segment, gt_segment, gt_layer) ==
  LET num_segments == PowTwo(gt_layer)
      direct == RInt(Abs(pred_segment - gt_segment))
      segment_distance == RMin(direct, RSub(num_segments, direct))
  IN RMax(Zero, RSub(One, RDiv(segment_distance, RDiv(num_segments, RInt(2)))))

LayerScore(pred_layer, gt_layer) ==
  RMax(Zero, RSub(One, Rat(Abs(pred_layer - gt_layer), 4)))

\* raised = TRUE: an exception other than ValueError and IndexError leaves
\* the function.
evaluate_grounding(pred_parts, gt_parts) ==
  IF Len(pred_parts) < 2 \/ Len(gt_parts) < 2
  THEN [raised |-> FALSE, v |-> Zero]
  ELSE
    LET pl == ParseInt(pred_parts[1])
        ps == ParseInt(pred_parts[2])
        gl == ParseInt(gt_parts[1])
        gs == ParseInt(gt_parts[2])
    IN IF ~(pl.ok /\ ps.ok /\ gl.ok /\ gs.ok)
       THEN [raised |-> FALSE, v |-> Zero]
       ELSE IF pl.v = gl.v /\ ps.v = gs.v
       THEN [raised |-> FALSE, v |-> One]
       ELSE IF pl.v = gl.v
       THEN IF TrueDivRaises(gl.v)
            THEN [raised |-> TRUE, v |-> Zero]
            ELSE [raised |-> FALSE,
                  v |-> RMul(Rat(8, 10), SegmentScore(ps.v, gs.v, gl.v))]
       ELSE [raised |-> FALSE, v |-> RMul(Rat(4, 10), LayerScore(pl.v, gl.v))]

\* RateScore with every threshold exclusive.
RateScore_Exclusive(rate) ==
  IF rate < 0 THEN Zero
  ELSE IF rate < 5 THEN One
  ELSE IF rate < 10 THEN Rat(8, 10)
  ELSE IF rate < 30 THEN Rat(5, 10)
  ELSE Rat(2, 10)

RateScore(rate) ==
  IF rate <= 0 THEN Zero
  ELSE IF rate <= 5 THEN One
  ELSE IF rate <= 10 THEN Rat(8, 10)
  ELSE IF rate <= 30 THEN Rat(5, 10)
  ELSE Rat(2, 10)

evaluate_sampling_rate(sampling_rate_str) ==
  LET r == ParseInt(sampling_rate_str)
  IN IF r.ok THEN RateScore(r.v) ELSE Zero

\* FinalScore with the format and grounding weights exchanged.
FinalScore_WeightsSwapped(fs, gs, ss) ==
  RAdd(RAdd(RMul(Rat(5, 10), fs), RMul(Rat(3, 10), gs)), RMul(Rat(2, 10), ss))

\* 0.3 * format_score + 0.5 * grounding_score + 0.2 * sampling_score
FinalScore(fs, gs, ss) ==
  RAdd(RAdd(RMul(Rat(3, 10), fs), RMul(Rat(5, 10), gs)), RMul(Rat(2, 10), ss))

\* ------------------------------------------- the ground-truth resolver
max_layer == 4

\* Ticks per second: every boundary of layers 0..max_layer is a whole tick.
Ticks == 2 ^ max_layer

\* parse_time_reference: 'MM:SS-MM:SS' to (start, end) in seconds; (0, 0)
\* for anything else.  Unpacking a split on ':' that has not exactly two
\* parts is a ValueError, as is a part that is no integer.
parse_time_reference(time_ref) ==
  IF time_ref = <<>> \/ ~Contains(time_ref, "-") THEN <<0, 0>>
  ELSE
    LET parts == Split(time_ref, "-")
    IN IF Len(parts) # 2 THEN <<0, 0>>
       ELSE
         LET s == Split(parts[1], ":")
             e == Split(parts[2], ":")
         IN IF Len(s) # 2 \/ Len(e) # 2 THEN <<0, 0>>
            ELSE
              LET start_min == ParseInt(s[1])
                  start_sec == ParseInt(s[2])
                  end_min == ParseInt(e[1])
                  end_sec == ParseInt(e[2])
              IN IF start_min.ok /\ start_sec.ok /\ end_min.ok /\ end_sec.ok
                 THEN <<start_min.v * 60 + start_sec.v,
                        end_min.v * 60 + end_sec.v>>
                 ELSE <<0, 0>>

Max(a, b) == IF a >= b THEN a ELSE b
Min(a, b) == IF a <= b THEN a ELSE b

\* segment_duration = video_duration_sec / num_segments, in ticks.
SegmentDuration(duration_min, l) == (duration_min * 60 * Ticks) \div (2 ^ l)

\* Overlaps with an empty intersection let through.
Overlaps_OrTouches(intersection_start, intersection_end) ==
  intersection_end >= intersection_start

\* if intersection_end > intersection_start
Overlaps(intersection_start, intersection_end) ==
  intersection_end > intersection_start

\* Better without the preference for the finer layer.
Better_StrictOnly(iou, l, b_iou, b_layer) == RLt(b_iou, iou)

\* Better with the finer layer preferred from an IoU of 0.5 on.
Better_FromHalf(iou, l, b_iou, b_layer) ==
  RLt(b_iou, iou) \/ (RLe(Rat(5, 10), iou) /\ l > b_layer)

\* The test that replaces the best candidate so far.
Better(iou, l, b_iou, b_layer) ==
  RLt(b_iou, iou) \/ (RLe(Rat(7, 10), iou) /\ l > b_layer)

\* f"<grounding>{layer}, {segment_id}, 0</grounding>"
GroundTruthString(l, s) ==
  <<TagGroundOpen>> \o IntToStr(l) \o <<",", " ">> \o IntToStr(s)
    \o <<",", " ", "0">> \o <<TagGroundClose>>

\* -------------------------------------------------------------- state
VARIABLES
  pc,                 \* where the function under way stands
  gen,                \* what the input was built from
  predict_str, ground_truth,
  format_score, pred_parts, gt_parts, grounding_score, sampling_score,
  result,             \* the value returned
  time_reference, video_duration_min, start_time, end_time,
  layer, segment_id, best_layer, best_segment, best_iou,
  raised,             \* an exception left the function
  answer              \* the annotation string of the record

scoreVars == <<predict_str, ground_truth, format_score, pred_parts, gt_parts,
               grounding_score, sampling_score, result>>
resolverVars == <<time_reference, video_duration_min, start_time, end_time,
                  layer, segment_id, best_layer, best_segment, best_iou,
                  answer>>
vars == <<pc, gen, scoreVars, resolverVars, raised>>

None == <<>>

ScoreIdle ==
  /\ format_score = Zero /\ pred_parts = None /\ gt_parts = None
  /\ grounding_score = Zero /\ sampling_score = Zero /\ result = Zero
  /\ raised = FALSE

ResolverIdle ==
  /\ time_reference = None /\ video_duration_min = 0
  /\ start_time = 0 /\ end_time = 0 /\ layer = 0 /\ segment_id = 0
  /\ best_layer = 0 /\ best_segment = 0 /\ best_iou = Zero /\ answer = None

\* ------------------------------------------------------------- inputs
Text(n) == [i \in 1..n |-> "x"]
Blanks(n) == [i \in 1..n |-> " "]
Padded(s, before, after) == Blanks(before) \o s \o Blanks(after)

RECURSIVE Join(_)
\* ", ".join(fields)
Join(fields) ==
  IF Len(fields) = 0 THEN <<>>
  ELSE IF Len(fields) = 1 THEN fields[1]
  ELSE fields[1] \o <<",", " ">> \o Join(Tail(fields))

GroundingBlock(content) == <<TagGroundOpen>> \o content \o <<TagGroundClose>>
ThinkBlock(content) == <<TagThinkOpen>> \o content \o <<TagThinkClose>>

\* ------------------------------------------------ check_format alone
ThinkLens == {0, 5, 100, 200, MaxThinkLen}

\* A thinking part: its text, whether both markers are in it, and the
\* length of the trimmed content of its first <think>...</think> pair.
ThinkVariants ==
  {[s |-> <<>>, has |-> FALSE, len |-> 0]}
  \cup {[s |-> ThinkBlock(Padded(Text(n), p, q)), has |-> TRUE, len |-> n] :
          n \in ThinkLens, p \in 0..MaxPad, q \in 0..MaxPad}
  \cup {[s |-> ThinkBlock(Text(2) \o <<" ">> \o Text(2)), has |-> TRUE, len |-> 5],
        [s |-> <<TagThinkOpen>> \o Text(5), has |-> FALSE, len |-> 0],
        [s |-> Text(5) \o <<TagThinkClose>>, has |-> FALSE, len |-> 0],
        [s |-> <<TagThinkClose>> \o Text(5) \o <<TagThinkOpen>>,
         has |-> TRUE, len |-> 0]}

\* A grounding part: its text and whether both markers are in it.
GroundVariants ==
  {[s |-> <<>>, has |-> FALSE],
   [s |-> GroundingBlock(Join(<<<<"2">>, <<"1">>, <<"3">>>>)), has |-> TRUE],
   [s |-> GroundingBlock(<<>>), has |-> TRUE],
   [s |-> <<TagGroundOpen, "2">>, has |-> FALSE],
   [s |-> <<TagGroundClose, "2", TagGroundOpen>>, has |-> TRUE]}

FormatInputs ==
  {[s |-> t.s \o g.s,
    g |-> [has_thinking |-> t.has, has_grounding |-> g.has, think_len |-> t.len]] :
     t \in ThinkVariants, g \in GroundVariants}
  \cup {[s |-> g.s \o t.s,
         g |-> [has_thinking |-> t.has, has_grounding |-> g.has,
                think_len |-> t.len]] :
          t \in ThinkVariants, g \in GroundVariants}
  \cup {[s |-> ThinkBlock(Text(n) \o g.s),
         g |-> [has_thinking |-> TRUE, has_grounding |-> g.has,
                think_len |-> n + CharLen(g.s)]] :
          n \in ThinkLens, g \in GroundVariants}

InitFormat ==
  /\ pc = "check_format"
  /\ \E in \in FormatInputs : predict_str = in.s /\ gen = in.g
  /\ ground_truth = None
  /\ ScoreIdle /\ ResolverIdle

CallCheckFormat ==
  /\ pc = "check_format"
  /\ format_score' = check_format(predict_str)
  /\ pc' = "done"
  /\ UNCHANGED <<gen, predict_str, ground_truth, pred_parts, gt_parts,
                 grounding_score, sampling_score, result, resolverVars, raised>>

NextFormat == CallCheckFormat

SpecFormat == InitFormat /\ [][NextFormat]_vars

\* ---------------------------------------- evaluate_sampling_rate alone
NonNumeric ==
  {<<>>, <<"x">>, <<" ">>, <<"5", ".", "0">>, <<"-">>, <<"-", " ", "5">>,
   <<"-", "-", "5">>, <<"5", " ", "5">>, <<"5", "x">>}

RateInputs ==
  {[s |-> Padded(IntToStr(n), p, q), g |-> [numeric |-> TRUE, rate |-> n]] :
     n \in (0 - 2)..MaxRate, p \in 0..MaxPad, q \in 0..MaxPad}
  \cup {[s |-> <<"+">> \o IntToStr(n), g |-> [numeric |-> TRUE, rate |-> n]] :
          n \in 0..MaxRate}
  \cup {[s |-> s, g |-> [numeric |-> FALSE, rate |-> 0]] : s \in NonNumeric}

InitRate ==
  /\ pc = "evaluate_sampling_rate"
  /\ \E in \in RateInputs :
       /\ gen = in.g
       /\ pred_parts = <<<<"2">>, <<"1">>, in.s>>
  /\ predict_str = None /\ ground_truth = None /\ gt_parts = None
  /\ format_score = Zero /\ grounding_score = Zero /\ sampling_score = Zero
  /\ result = Zero /\ raised = FALSE
  /\ ResolverIdle

CallEvaluateSamplingRate ==
  /\ pc = "evaluate_sampling_rate"
  /\ sampling_score' = evaluate_sampling_rate(pred_parts[3])
  /\ pc' = "done"
  /\ UNCHANGED <<gen, predict_str, ground_truth, format_score, pred_parts,
                 gt_parts, grounding_score, result, resolverVars, raised>>

NextRate == CallEvaluateSamplingRate

SpecRate == InitRate /\ [][NextRate]_vars

\* -------------------------------------------- evaluate_grounding alone
\* (layer, segment) with the layer in 0..MaxLayerIn and the segment in
\* [0, 2^layer).
ValidPairs == {<<l, s>> \in (0..MaxLayerIn) \X (0..(2 ^ MaxLayerIn - 1)) : s < 2 ^ l}

GroundingInputs ==
  {[p |-> <<IntToStr(a[1]), IntToStr(a[2]), <<"3">>>>,
    t |-> <<IntToStr(b[1]), IntToStr(b[2]), <<"0">>>>,
    g |-> [integers |-> TRUE, pred |-> a, gt |-> b]] :
     a \in ValidPairs, b \in ValidPairs}
  \cup {[p |-> <<IF k = 1 THEN bad ELSE <<"2">>, IF k = 2 THEN bad ELSE <<"1">>,
                 <<"3">>>>,
         t |-> <<IF k = 3 THEN bad ELSE <<"2">>, IF k = 4 THEN bad ELSE <<"1">>,
                 <<"0">>>>,
         g |-> [integers |-> FALSE, pred |-> <<2, 1>>, gt |-> <<2, 1>>]] :
          k \in 1..4, bad \in NonNumeric}

InitGrounding ==
  /\ pc = "evaluate_grounding"
  /\ \E in \in GroundingInputs :
       gen = in.g /\ pred_parts = in.p /\ gt_parts = in.t
  /\ predict_str = None /\ ground_truth = None
  /\ format_score = Zero /\ grounding_score = Zero /\ sampling_score = Zero
  /\ result = Zero /\ raised = FALSE
  /\ ResolverIdle

CallEvaluateGrounding ==
  /\ pc = "evaluate_grounding"
  /\ LET r == evaluate_grounding(pred_parts, gt_parts)
     IN grounding_score' = r.v /\ raised' = r.raised
  /\ pc' = "done"
  /\ UNCHANGED <<gen, predict_str, ground_truth, format_score, pred_parts,
                 gt_parts, sampling_score, result, resolverVars>>

NextGrounding == CallEvaluateGrounding

SpecGrounding == InitGrounding /\ [][NextGrounding]_vars

\* ---------------------------------------------------- video_grounding
ScoreLayers == {0 - 1074, 0 - 1, 1, 2, 1025}
PredSegments == {0, 1, 3, 100}
GtSegments == {0, 1}
PredRates == {<<"3">>, <<"0">>, <<"3", "1">>, <<>>, <<"x">>}
GtThirds == {<<"0">>, <<"7">>}

PredThinks ==
  {[s |-> <<>>, has |-> FALSE],
   [s |-> ThinkBlock(Text(5)), has |-> TRUE],
   [s |-> ThinkBlock(Text(100)), has |-> TRUE]}

PredFieldLists ==
  {<<IntToStr(l), IntToStr(s), r>> :
     l \in ScoreLayers, s \in PredSegments, r \in PredRates}
  \cup {<<<<"x">>, <<"1">>, r>> : r \in PredRates}
  \cup {<<<<"2">>, <<"1">>>>, <<<<"2">>>>, <<<<"2">>, <<"1">>, <<"3">>, <<"4">>>>}

GtFieldLists ==
  {<<IntToStr(l), IntToStr(s), r>> :
     l \in ScoreLayers, s \in GtSegments, r \in GtThirds}
  \cup {<<<<"2">>, <<"x">>, <<"0">>>>}
  \cup {<<<<"2">>, <<"1">>>>, <<<<"2">>, <<"1">>, <<"0">>, <<"0">>>>}

\* A grounding part: its text; kind "fields" when the search finds content,
\* which then is the fields joined; "absent" when the markers are there
\* without content the search accepts; "none" without both markers.
Groundings(lists) ==
  {[s |-> GroundingBlock(Join(f)), kind |-> "fields", fields |-> f] : f \in lists}
  \cup {[s |-> <<>>, kind |-> "none", fields |-> <<>>],
        [s |-> <<TagGroundOpen, "2", ",", "1", ",", "3">>,
         kind |-> "none", fields |-> <<>>],
        [s |-> GroundingBlock(<<>>), kind |-> "absent", fields |-> <<>>],
        [s |-> GroundingBlock(<<"2", ",", "<", "1", ",", "3">>),
         kind |-> "absent", fields |-> <<>>],
        [s |-> GroundingBlock(<<" ", "2", " ", ",", "1", ",", " ", " ", "3", " ">>),
         kind |-> "fields", fields |-> <<<<"2">>, <<"1">>, <<"3">>>>],
        [s |-> GroundingBlock(Join(<<<<"2">>, <<"1">>>>))
                 \o GroundingBlock(Join(<<<<"2">>, <<"1">>, <<"3">>>>)),
         kind |-> "fields", fields |-> <<<<"2">>, <<"1">>>>],
        [s |-> GroundingBlock(<<>>)
                 \o GroundingBlock(Join(<<<<"2">>, <<"1">>, <<"3">>>>)),
         kind |-> "fields", fields |-> <<<<"2">>, <<"1">>, <<"3">>>>]}

InitScore ==
  /\ pc = "start"
  /\ \E t \in PredThinks, p \in Groundings(PredFieldLists),
        g \in Groundings(GtFieldLists) :
       /\ predict_str = t.s \o p.s
       /\ ground_truth = g.s
       /\ gen = [think |-> t.has,
                 pred |-> [kind |-> p.kind, fields |-> p.fields],
                 gt |-> [kind |-> g.kind, fields |-> g.fields]]
  /\ ScoreIdle /\ ResolverIdle

\* Lines 18-23: the format score and the hard gate.
VG_CheckFormat ==
  /\ pc = "start"
  /\ format_score' = check_format(predict_str)
  /\ IF format_score' = Zero
     THEN result' = Zero /\ pc' = "done"
     ELSE result' = result /\ pc' = "search"
  /\ UNCHANGED <<gen, predict_str, ground_truth, pred_parts, gt_parts,
                 grounding_score, sampling_score, resolverVars, raised>>

\* Lines 26-34: both searches, then the split and the trim of each content.
VG_Search ==
  /\ pc = "search"
  /\ LET pred_match == SearchGrounding(predict_str)
         gt_match == SearchGrounding(ground_truth)
     IN IF ~pred_match.found \/ ~gt_match.found
        THEN /\ result' = RMul(Rat(1, 10), format_score)
             /\ pc' = "done"
             /\ UNCHANGED <<pred_parts, gt_parts>>
        ELSE /\ pred_parts' = StripAll(Split(pred_match.group, ","))
             /\ gt_parts' = StripAll(Split(gt_match.group, ","))
             /\ pc' = "count"
             /\ UNCHANGED result
  /\ UNCHANGED <<gen, predict_str, ground_truth, format_score,
                 grounding_score, sampling_score, resolverVars, raised>>

\* VG_Count testing the prediction's fields only.
VG_Count_PredOnly ==
  /\ pc = "count"
  /\ IF Len(pred_parts) # 3
     THEN result' = RMul(Rat(2, 10), format_score) /\ pc' = "done"
     ELSE result' = result /\ pc' = "score"
  /\ UNCHANGED <<gen, predict_str, ground_truth, format_score, pred_parts,
                 gt_parts, grounding_score, sampling_score, resolverVars, raised>>

\* Lines 36-37: the count of the fields.
VG_Count ==
  /\ pc = "count"
  /\ IF Len(pred_parts) # 3 \/ Len(gt_parts) # 3
     THEN result' = RMul(Rat(2, 10), format_score) /\ pc' = "done"
     ELSE result' = result /\ pc' = "score"
  /\ UNCHANGED <<gen, predict_str, ground_truth, format_score, pred_parts,
                 gt_parts, grounding_score, sampling_score, resolverVars, raised>>

\* Lines 39-51: the two sub-scores and the weighted sum; an exception of
\* evaluate_grounding is caught, and the format alone is scored.
VG_Score ==
  /\ pc = "score"
  /\ LET g == evaluate_grounding(pred_parts, gt_parts)
         s == evaluate_sampling_rate(pred_parts[3])
     IN IF g.raised
        THEN /\ result' = RMul(Rat(1, 10), format_score)
             /\ UNCHANGED <<grounding_score, sampling_score>>
        ELSE /\ grounding_score' = g.v
             /\ sampling_score' = s
             /\ result' = FinalScore(format_score, g.v, s)
  /\ pc' = "done"
  /\ UNCHANGED <<gen, predict_str, ground_truth, format_score, pred_parts,
                 gt_parts, resolverVars, raised>>

NextScore == VG_CheckFormat \/ VG_Search \/ VG_Count \/ VG_Score

SpecScore == InitScore /\ [][NextScore]_vars

\* ------------------------------------------- the resolver, per record
SecValues == {0, 15, 25, 30, 45}

Pad2(n) == IF n < 10 THEN <<"0">> \o NatToStr(n) ELSE NatToStr(n)

\* 'MM:SS-MM:SS'
FormatTimeRef(sm, ss, em, es) ==
  Pad2(sm) \o <<":">> \o Pad2(ss) \o <<"-">> \o Pad2(em) \o <<":">> \o Pad2(es)

Malformed ==
  {<<>>,
   <<"0", "0", ":", "1", "5">>,
   <<"0", ":", "1", "5", "-", "0", ":", "3", "0", "-", "0", ":", "4", "5">>,
   <<"1", "5", "-", "3", "0">>,
   <<"x", ":", "1", "5", "-", "0", ":", "3", "0">>,
   <<"0", ":", "1", "5", "-">>,
   <<"0", ":", "1", ":", "5", "-", "0", ":", "3", "0">>}

TimeRefInputs ==
  {FormatTimeRef(sm, ss, em, es) :
     sm \in 0..MaxDurationMin, ss \in SecValues,
     em \in 0..MaxDurationMin, es \in SecValues}
  \cup Malformed

InitResolver ==
  /\ pc = "parse"
  /\ time_reference \in TimeRefInputs
  /\ video_duration_min \in 0..MaxDurationMin
  /\ gen = [malformed |-> time_reference \in Malformed]
  /\ start_time = 0 /\ end_time = 0 /\ layer = 0 /\ segment_id = 0
  /\ best_layer = 0 /\ best_segment = 0 /\ best_iou = Zero /\ answer = None
  /\ predict_str = None /\ ground_truth = None
  /\ ScoreIdle

\* Line 142, and lines 39-43 of the call that follows.
PTR_Parse ==
  /\ pc = "parse"
  /\ LET r == parse_time_reference(time_reference)
     IN start_time' = r[1] /\ end_time' = r[2]
  /\ layer' = 0 /\ segment_id' = 0
  /\ best_layer' = 0 /\ best_segment' = 0 /\ best_iou' = Zero
  /\ pc' = "loop"
  /\ UNCHANGED <<gen, scoreVars, time_reference, video_duration_min, answer,
                 raised>>

\* Lines 44-60: one candidate (layer, segment_id) of the two loops.
CLS_Step ==
  /\ pc = "loop"
  /\ layer <= max_layer
  /\ LET num_segments == 2 ^ layer
         segment_duration == SegmentDuration(video_duration_min, layer)
         segment_start == segment_id * segment_duration
         segment_end == (segment_id + 1) * segment_duration
         intersection_start == Max(start_time * Ticks, segment_start)
         intersection_end == Min(end_time * Ticks, segment_end)
         intersection == intersection_end - intersection_start
         union == Max(end_time * Ticks, segment_end)
                    - Min(start_time * Ticks, segment_start)
         last == segment_id + 1 >= num_segments
     IN IF Overlaps(intersection_start, intersection_end) /\ union = 0
        THEN \* ZeroDivisionError
             /\ raised' = TRUE
             /\ pc' = "done"
             /\ UNCHANGED <<layer, segment_id, best_layer, best_segment,
                            best_iou>>
        ELSE
          /\ IF /\ Overlaps(intersection_start, intersection_end)
                /\ Better(Rat(intersection, union), layer, best_iou, best_layer)
             THEN /\ best_iou' = Rat(intersection, union)
                  /\ best_layer' = layer
                  /\ best_segment' = segment_id
             ELSE UNCHANGED <<best_layer, best_segment, best_iou>>
          /\ layer' = IF last THEN layer + 1 ELSE layer
          /\ segment_id' = IF last THEN 0 ELSE segment_id + 1
          /\ UNCHANGED <<pc, raised>>
  /\ UNCHANGED <<gen, scoreVars, time_reference, video_duration_min,
                 start_time, end_time, answer>>

\* Line 61, then lines 143-144: the pair returned and its annotation.
CLS_Return ==
  /\ pc = "loop"
  /\ layer > max_layer
  /\ answer' = GroundTruthString(best_layer, best_segment)
  /\ pc' = "done"
  /\ UNCHANGED <<gen, scoreVars, time_reference, video_duration_min,
                 start_time, end_time, layer, segment_id, best_layer,
                 best_segment, best_iou, raised>>

NextResolver == PTR_Parse \/ CLS_Step \/ CLS_Return

SpecResolver == InitResolver /\ [][NextResolver]_vars

\* ------------------------------------------------ the whole program
\* Every entry point, each from its own inputs.
Init == InitFormat \/ InitRate \/ InitGrounding \/ InitScore \/ InitResolver

Next == NextFormat \/ NextRate \/ NextGrounding \/ NextScore \/ NextResolver

Spec == Init /\ [][Next]_vars

\* ------------------------------------------- claims: the sub-scores
\* C9: check_format depends only on which markers the response holds and on
\* the trimmed length of its thinking content: 0.6 + 0.4 * min(1, len/200),
\* within [0.6, 1.0], with both pairs of markers (len is 0 when no
\* <think>...</think> pair is found in that order); 0.3 with the thinking
\* markers only; 0.5 with the grounding markers only; 0.0 with neither.
C9_CheckFormat ==
  pc = "done" =>
    /\ format_score =
         IF gen.has_thinking /\ gen.has_grounding
         THEN Rat(600 + 2 * Min(gen.think_len, 200), 1000)
         ELSE IF gen.has_thinking THEN Rat(3, 10)
         ELSE IF gen.has_grounding THEN Rat(5, 10)
         ELSE Zero
    /\ (gen.has_thinking /\ gen.has_grounding) =>
         (RLe(Rat(6, 10), format_score) /\ RLe(format_score, One))

\* Both pairs of markers around 100 characters padded with blanks: 0.8.
C9_Witness ==
  /\ pc = "done"
  /\ gen.has_thinking /\ gen.has_grounding /\ gen.think_len = 100
  /\ Len(predict_str) > 100 + 4 + 5
  /\ format_score = Rat(8, 10)

\* C8: for integer fields with layers in 0..MaxLayerIn and segments in
\* [0, 2^layer), evaluate_grounding is 1.0 on an exact match; with the same
\* layer only, 0.8 * max(0, 1 - d/(n/2)) for n = 2^layer and d the circular
\* distance min(|pred-gt|, n-|pred-gt|); with different layers,
\* 0.4 * max(0, 1 - |pred_layer-gt_layer|/4) whatever the segments; and it is
\* 0.0 when one of the four fields is no integer.  It raises nothing.
C8_EvaluateGrounding ==
  pc = "done" =>
    /\ ~raised
    /\ grounding_score =
         IF ~gen.integers THEN Zero
         ELSE LET pl == gen.pred[1]
                  ps == gen.pred[2]
                  gl == gen.gt[1]
                  gs == gen.gt[2]
                  n == 2 ^ gl
                  a == Abs(ps - gs)
                  d == Min(a, n - a)
              IN IF pl = gl /\ ps = gs THEN One
                 ELSE IF pl = gl THEN Rat(8 * Max(0, n - 2 * d), 10 * n)
                 ELSE Rat(4 * Max(0, 4 - Abs(pl - gl)), 4 * 10)

\* Ground truth (2, 0), prediction (2, 3): the wrap-around distance 1, 0.4.
C8_Witness ==
  /\ pc = "done"
  /\ gen.integers /\ gen.gt = <<2, 0>> /\ gen.pred = <<2, 3>>
  /\ grounding_score = Rat(4, 10)

\* C10: evaluate_sampling_rate is the step function of the rate alone:
\* 0.0 up to 0, 1.0 on 1..5, 0.8 on 6..10, 0.5 on 11..30, 0.2 above 30, and
\* 0.0 for a field that is no integer.
C10_EvaluateSamplingRate ==
  pc = "done" =>
    sampling_score =
      IF ~gen.numeric THEN Zero
      ELSE IF gen.rate \in 1..5 THEN One
      ELSE IF gen.rate \in 6..10 THEN Rat(8, 10)
      ELSE IF gen.rate \in 11..30 THEN Rat(5, 10)
      ELSE IF gen.rate >= 31 THEN Rat(2, 10)
      ELSE Zero

\* Rate 30, written with blanks around it, scores 0.5.
C10_Witness ==
  /\ pc = "done"
  /\ gen.numeric /\ gen.rate = 30 /\ Len(pred_parts[3]) = 4
  /\ sampling_score = Rat(5, 10)

\* --------------------------------------- claims: video_grounding
\* C1: video_grounding returns a score within [0, 1] for every pair of
\* strings, fields that are integers out of range included.
C1_ScoreInUnitRange ==
  pc = "done" => (RLe(Zero, result) /\ RLe(result, One))

\* C2, as claimed: whenever the prediction and the ground truth each hold
\* grounding content of exactly 3 fields, the result is
\* 0.3 * format_score + 0.5 * grounding_score + 0.2 * sampling_score.
C2_Original ==
  (/\ pc = "done"
   /\ gen.pred.kind = "fields" /\ Len(gen.pred.fields) = 3
   /\ gen.gt.kind = "fields" /\ Len(gen.gt.fields) = 3) =>
    LET fs == check_format(predict_str)
        gs == evaluate_grounding(gen.pred.fields, gen.gt.fields).v
        ss == evaluate_sampling_rate(gen.pred.fields[3])
    IN result = RAdd(RAdd(RMul(Rat(3, 10), fs), RMul(Rat(5, 10), gs)),
                     RMul(Rat(2, 10), ss))

\* C2, amended: with 3 fields on both sides the result is
\* 0.3 * format_score + 0.5 * grounding_score + 0.2 * sampling_score of the
\* prediction's format, of fields 1 and 2 of both and of the prediction's
\* field 3, unless evaluate_grounding raises, and then it is
\* 0.1 * format_score.
C2_WeightedSum ==
  (/\ pc = "done"
   /\ gen.pred.kind = "fields" /\ Len(gen.pred.fields) = 3
   /\ gen.gt.kind = "fields" /\ Len(gen.gt.fields) = 3) =>
    LET fs == check_format(predict_str)
        g == evaluate_grounding(gen.pred.fields, gen.gt.fields)
        ss == evaluate_sampling_rate(gen.pred.fields[3])
    IN IF g.raised THEN result = RMul(Rat(1, 10), fs)
       ELSE result = RAdd(RAdd(RMul(Rat(3, 10), fs), RMul(Rat(5, 10), g.v)),
                          RMul(Rat(2, 10), ss))

\* "<think>xxxxx</think><grounding>2, 1, 3</grounding>" against
\* "<grounding>2, 1, 0</grounding>": 0.3 * 0.61 + 0.5 + 0.2 = 0.883.
C2_Witness ==
  /\ pc = "done"
  /\ predict_str = ThinkBlock(Text(5))
                     \o GroundingBlock(Join(<<<<"2">>, <<"1">>, <<"3">>>>))
  /\ ground_truth = GroundingBlock(Join(<<<<"2">>, <<"1">>, <<"0">>>>))
  /\ format_score = Rat(61, 100)
  /\ result = Rat(883, 1000)

\* C3, as claimed: whenever the grounding content of the prediction or of
\* the ground truth has not exactly 3 fields, the result is
\* 0.2 * format_score, whatever the other string is.
C3_Original ==
  (/\ pc = "done"
   /\ \/ (gen.pred.kind = "fields" /\ Len(gen.pred.fields) # 3)
      \/ (gen.gt.kind = "fields" /\ Len(gen.gt.fields) # 3)) =>
    result = RMul(Rat(2, 10), check_format(predict_str))

\* C3, amended: when both strings hold grounding content and one of the two
\* has not exactly 3 fields, the result is 0.2 * format_score.
C3_FieldCount ==
  (/\ pc = "done"
   /\ gen.pred.kind = "fields" /\ gen.gt.kind = "fields"
   /\ (Len(gen.pred.fields) # 3 \/ Len(gen.gt.fields) # 3)) =>
    result = RMul(Rat(2, 10), check_format(predict_str))

\* The ground truth "2, 1" against a well-formed prediction: 0.2 * 0.61.
C3_Witness ==
  /\ pc = "done"
  /\ gen.think
  /\ gen.pred.kind = "fields" /\ Len(gen.pred.fields) = 3
  /\ gen.gt.kind = "fields" /\ Len(gen.gt.fields) = 2
  /\ result = Rat(122, 1000)

\* C4: whenever no grounding content is found in the prediction or in the
\* ground truth, the result is 0.1 * format_score, whatever the number of
\* fields of the other; it is 0.0 when the prediction holds no pair of
\* markers at all.
C4_MissingGrounding ==
  (/\ pc = "done"
   /\ (gen.pred.kind # "fields" \/ gen.gt.kind # "fields")) =>
    /\ result = RMul(Rat(1, 10), check_format(predict_str))
    /\ (~gen.think /\ gen.pred.kind = "none") => result = Zero

\* A prediction of 2 fields, a ground truth without grounding: the missing
\* content decides, 0.1 * 0.5.
C4_Witness ==
  /\ pc = "done"
  /\ ~gen.think
  /\ gen.pred.kind = "fields" /\ Len(gen.pred.fields) = 2
  /\ gen.gt.kind = "none"
  /\ result = Rat(5, 100)

\* ------------------------------------------- claims: the resolver
\* C5: for a positive duration, compute_layer_segment returns, when some
\* candidate (layer, segment) has an IoU of at least 0.7 with the interval,
\* the candidate of such an IoU in the greatest such layer; otherwise the
\* candidate of greatest IoU, the first of them in the order of the layers
\* and then of the segments.
C5_Selection ==
  (pc = "done" /\ video_duration_min > 0) =>
    LET st == start_time * Ticks
        en == end_time * Ticks
        Cands == {c \in (0..max_layer) \X (0..(2 ^ max_layer - 1)) :
                    c[2] < 2 ^ c[1]}
        Lo(c) == c[2] * SegmentDuration(video_duration_min, c[1])
        Hi(c) == (c[2] + 1) * SegmentDuration(video_duration_min, c[1])
        Inter(c) == Max(0, Min(en, Hi(c)) - Max(st, Lo(c)))
        Union(c) == Max(en, Hi(c)) - Min(st, Lo(c))
        IoU(c) == IF Inter(c) = 0 THEN Zero ELSE Rat(Inter(c), Union(c))
        Good == {c \in Cands : RLe(Rat(7, 10), IoU(c))}
        Before(a, b) == a[1] < b[1] \/ (a[1] = b[1] /\ a[2] <= b[2])
        best == <<best_layer, best_segment>>
    IN /\ ~raised
       /\ best \in Cands
       /\ IF Good # {}
          THEN best \in Good /\ \A c \in Good : c[1] <= best_layer
          ELSE \A c \in Cands :
                 /\ RLe(IoU(c), IoU(best))
                 /\ IoU(c) = IoU(best) => Before(best, c)

\* 00:00-01:25 over 2 minutes: layer 0 overlaps by 85/120, segment 0 of
\* layer 1 by 60/85, which is less and at least 0.7: (1, 0) is returned.
C5_Witness ==
  /\ pc = "done"
  /\ video_duration_min = 2 /\ start_time = 0 /\ end_time = 85
  /\ best_layer = 1 /\ best_segment = 0
  /\ best_iou = Rat(60, 85)

\* C6: for a positive duration, the interval that is exactly segment s of
\* layer L comes back as (L, s), and as the annotation
\* "<grounding>L, s, 0</grounding>".
C6_RoundTrip ==
  (pc = "done" /\ video_duration_min > 0) =>
    \A l \in 0..max_layer : \A s \in 0..(2 ^ l - 1) :
      (/\ start_time * Ticks = s * SegmentDuration(video_duration_min, l)
       /\ end_time * Ticks = (s + 1) * SegmentDuration(video_duration_min, l))
      => /\ best_layer = l /\ best_segment = s
         /\ ParseInt(StripAll(Split(SearchGrounding(answer).group, ","))[1]).v = l
         /\ ParseInt(StripAll(Split(SearchGrounding(answer).group, ","))[2]).v = s

\* 00:15-00:30 over 4 minutes is segment 1 of layer 4.
C6_Witness ==
  /\ pc = "done"
  /\ video_duration_min = 4 /\ start_time = 15 /\ end_time = 30
  /\ best_layer = 4 /\ best_segment = 1 /\ best_iou = One

\* C7: compute_layer_segment returns (0, 0) and raises nothing when no
\* candidate meets the interval over a positive length: an interval of
\* length zero (that of a malformed time reference, (0, 0), included), a
\* reversed interval, an interval at or after the end of the video, a
\* duration of 0.
C7_DefaultPair ==
  pc = "done" =>
    LET st == start_time * Ticks
        en == end_time * Ticks
        Cands == {c \in (0..max_layer) \X (0..(2 ^ max_layer - 1)) :
                    c[2] < 2 ^ c[1]}
        Lo(c) == c[2] * SegmentDuration(video_duration_min, c[1])
        Hi(c) == (c[2] + 1) * SegmentDuration(video_duration_min, c[1])
        NoOverlap == \A c \in Cands : Min(en, Hi(c)) <= Max(st, Lo(c))
    IN /\ ~raised
       /\ (\/ end_time <= start_time
           \/ start_time >= video_duration_min * 60
           \/ video_duration_min = 0) => NoOverlap
       /\ gen.malformed => (start_time = 0 /\ end_time = 0)
       /\ NoOverlap => /\ best_layer = 0 /\ best_segment = 0
                       /\ answer = GroundingBlock(Join(<<<<"0">>, <<"0">>, <<"0">>>>))

\* A video of duration 0 and an interval of positive length.
C7_Witness ==
  /\ pc = "done"
  /\ video_duration_min = 0 /\ start_time = 15 /\ end_time = 85
  /\ best_layer = 0 /\ best_segment = 0 /\ ~raised

=============================================================================
